---- MODULE Spec2Model ----
(***************************************************************************)
(* Model of the multi-source ingestion and retrieval-augmented query       *)
(* pipeline: InformationLoader (app/information_loader.py),                *)
(* ProductionRAGPipeline (app/rag_pipeline.py) and the /ingest and /query  *)
(* endpoints (app/main.py).  One ingestion worker and one query worker run *)
(* concurrently on the shared pipeline instance, as FastAPI runs the       *)
(* synchronous endpoints on a thread pool.                                 *)
(***************************************************************************)
EXTENDS Integers, Sequences, FiniteSets, TLC

(***************************************************************************)
(* Strings.  A Python str is modelled exactly, run-length encoded: a       *)
(* sequence of runs [c |-> character, n |-> repetitions >= 1] in which     *)
(* adjacent runs carry different characters, so that equal strings have    *)
(* equal encodings.                                                        *)
(***************************************************************************)
Rep(ch, n) == IF n <= 0 THEN << >> ELSE << [c |-> ch, n |-> n] >>

RECURSIVE TextLen(_)
TextLen(t) == IF t = << >> THEN 0 ELSE Head(t).n + TextLen(Tail(t))

TextCat(a, b) ==
    IF a = << >> THEN b
    ELSE IF b = << >> THEN a
    ELSE IF a[Len(a)].c = b[1].c
         THEN SubSeq(a, 1, Len(a) - 1)
              \o << [c |-> b[1].c, n |-> a[Len(a)].n + b[1].n] >>
              \o Tail(b)
         ELSE a \o b

RECURSIVE TextTake(_, _)
TextTake(t, k) ==
    IF k <= 0 \/ t = << >> THEN << >>
    ELSE IF Head(t).n >= k THEN << [c |-> Head(t).c, n |-> k] >>
    ELSE << Head(t) >> \o TextTake(Tail(t), k - Head(t).n)

RECURSIVE TextDrop(_, _)
TextDrop(t, k) ==
    IF t = << >> THEN << >>
    ELSE IF k <= 0 THEN t
    ELSE IF Head(t).n > k
         THEN << [c |-> Head(t).c, n |-> Head(t).n - k] >> \o Tail(t)
    ELSE TextDrop(Tail(t), k - Head(t).n)

TextSlice(t, from, to) == TextTake(TextDrop(t, from), to - from)

RECURSIVE T(_)
T(chars) ==
    IF chars = << >> THEN << >>
    ELSE TextCat(Rep(Head(chars), 1), T(Tail(chars)))

StartsWith(t, p) == TextLen(t) >= TextLen(p) /\ TextTake(t, TextLen(p)) = p

EndsWith(t, p) ==
    TextLen(t) >= TextLen(p) /\ TextDrop(t, TextLen(t) - TextLen(p)) = p

RECURSIVE IndexOf(_, _)
IndexOf(t, ch) ==
    IF t = << >> THEN -1
    ELSE IF Head(t).c = ch THEN 0
    ELSE LET r == IndexOf(Tail(t), ch)
         IN  IF r < 0 THEN -1 ELSE Head(t).n + r

\* Python's None.
None == [none |-> TRUE]

(***************************************************************************)
(* Program constants and configuration values.                             *)
(***************************************************************************)
PreviewLen == 200
WebTextLimit == 10000
ChunkSize == 250
ChunkOverlap == 50
TopK == 2

Ellipsis == Rep(".", 3)
TruncatedMarker == TextCat(Rep(".", 3), T(<< " ", "[", "t", "r", "u", "n", "c", "a", "t", "e", "d", "]" >>))

S3Prefix == T(<< "s", "3", ":", "/", "/" >>)
HttpPrefix == T(<< "h", "t", "t", "p", ":", "/", "/" >>)
HttpsPrefix == T(<< "h", "t", "t", "p", "s", ":", "/", "/" >>)
PdfSuffix == T(<< ".", "p", "d", "f" >>)

(***************************************************************************)
(* The source strings the requests are drawn from, and the texts the       *)
(* external services (object storage, web, PDF reader, filesystem) hand    *)
(* back.                                                                   *)
(***************************************************************************)
RAW200 == Rep("a", 200)
RAW300 == Rep("a", 300)
S3_KEY == TextCat(S3Prefix, T(<< "b", "/", "k" >>))
S3_NOKEY == TextCat(S3Prefix, T(<< "b" >>))
WEB_URL == TextCat(HttpPrefix, T(<< "h", ".", "i", "o" >>))
PDF_PATH == TextCat(T(<< "f" >>), PdfSuffix)
LOCAL_PATH == T(<< "f" >>)
DOC == T(<< "d", "o", "g" >>)

S3_PDF == TextCat(S3_KEY, PdfSuffix)
BAD_URL == TextCat(HttpPrefix, T(<< "h" >>))

FileTexts == { << >>, DOC }
PdfTexts == { DOC }
WebTexts == { DOC }
PathCandidates == { LOCAL_PATH }

\* Markup, and the response texts a page can have when the loader is called
\* on its own: around the limit of _load_from_web, with and without markup.
Tagged(name, inner) ==
    TextCat(TextCat(TextCat(T(<< "<" >>), name), T(<< ">" >>)),
            TextCat(inner,
                    TextCat(TextCat(T(<< "<", "/" >>), name), T(<< ">" >>))))

P == T(<< "p" >>)
SCRIPT == T(<< "s", "c", "r", "i", "p", "t" >>)
STYLE == T(<< "s", "t", "y", "l", "e" >>)

PageTexts ==
    { DOC,
      Rep("a", WebTextLimit - 1),
      Rep("a", WebTextLimit),
      Rep("a", WebTextLimit + 1),
      TextCat(Rep("a", WebTextLimit - 1), Rep(".", 5)),
      Tagged(P, DOC),
      Tagged(P, Rep("a", WebTextLimit)),
      Tagged(P, Rep("a", WebTextLimit + 1)),
      TextCat(Tagged(SCRIPT, Rep("x", WebTextLimit)), Tagged(P, DOC)),
      TextCat(Tagged(P, TextCat(Rep(" ", 2), Rep("a", WebTextLimit))),
              Tagged(P, DOC)) }

(***************************************************************************)
(* InformationLoader                                                       *)
(***************************************************************************)
\* __init__ and _init_s3_client: the loader's fields after construction, from
\* whether the credentials are in the environment, whether boto3.client
\* succeeds and whether the head_bucket probe succeeds.
Boto3Client == [service |-> "s3"]

\* Mutant: a failed probe is logged and the backend stays enabled.
InitS3ClientProbeIgnored(creds, clientOk, probeOk) ==
    IF ~creds
    THEN [use_s3 |-> FALSE, s3_client |-> None, probes |-> 0, raised |-> FALSE]
    ELSE IF ~clientOk
    THEN [use_s3 |-> FALSE, s3_client |-> None, probes |-> 0, raised |-> FALSE]
    ELSE [use_s3 |-> TRUE, s3_client |-> Boto3Client, probes |-> 1,
          raised |-> FALSE]

\* `probes` counts the head_bucket calls made; `raised` says whether an
\* exception leaves the method (line 73 catches every Exception).
InitS3Client(creds, clientOk, probeOk) ==
    IF ~creds
    THEN [use_s3 |-> FALSE, s3_client |-> None, probes |-> 0, raised |-> FALSE]
    ELSE IF ~clientOk
    THEN [use_s3 |-> FALSE, s3_client |-> None, probes |-> 0, raised |-> FALSE]
    ELSE IF ~probeOk
    THEN [use_s3 |-> FALSE, s3_client |-> Boto3Client, probes |-> 1,
          raised |-> FALSE]
    ELSE [use_s3 |-> TRUE, s3_client |-> Boto3Client, probes |-> 1,
          raised |-> FALSE]

\* __init__(use_s3): _init_s3_client is called only when the argument is
\* True, which is the default and what the application passes.
NewLoader(use_s3_arg, creds, clientOk, probeOk) ==
    IF use_s3_arg THEN InitS3Client(creds, clientOk, probeOk)
    ELSE [use_s3 |-> FALSE, s3_client |-> None, probes |-> 0, raised |-> FALSE]

\* validators.url(source): a known scheme, "://" and a host name that has a
\* dot after its first label and at least two characters after that dot.
IsValidUrl(s) ==
    \E p \in { HttpPrefix, HttpsPrefix } :
        /\ StartsWith(s, p)
        /\ LET rest == TextDrop(s, TextLen(p))
               dot == IndexOf(rest, ".")
           IN  dot >= 1 /\ TextLen(rest) - dot - 1 >= 2

\* The outcome of a load: `tmp_left` says whether a temporary file the call
\* created is still on disk when the call exits.
Raised(rule, contacted) ==
    [ok |-> FALSE, text |-> << >>, rule |-> rule, contacted |-> contacted,
     tmp_left |-> FALSE]

Returned(rule, text, contacted) ==
    [ok |-> TRUE, text |-> text, rule |-> rule, contacted |-> contacted,
     tmp_left |-> FALSE]

\* _load_from_pdf: the joined page texts, or the reader's exception.
LoadFromPdf(rule, contacted) ==
    { Raised(rule, contacted) }
        \cup { Returned(rule, x, contacted) : x \in PdfTexts }

\* _load_from_local_file: the file's text, or the exception of open/read.
LoadFromLocalFile(rule, contacted) ==
    { Raised(rule, contacted) }
        \cup { Returned(rule, x, contacted) : x \in FileTexts }

\* Lines 137-149: NamedTemporaryFile(delete=False) has created the file
\* before download_file is called, and os.unlink (line 148) is reached only
\* when the download and the extraction both returned.
AfterTmpFile(o) == [o EXCEPT !.tmp_left = ~o.ok]

\* _load_from_s3
LoadFromS3(s3_uri, useS3, client) ==
    IF ~useS3 \/ client = None THEN { Raised("s3", FALSE) }
    ELSE LET path == TextDrop(s3_uri, 5)
             cut == IndexOf(path, "/")
         IN  IF cut < 0 THEN { Raised("s3", FALSE) }
             ELSE LET key == TextDrop(path, cut + 1)
                      extracted == IF EndsWith(key, PdfSuffix)
                                   THEN LoadFromPdf("s3", TRUE)
                                   ELSE LoadFromLocalFile("s3", TRUE)
                  IN  { AfterTmpFile(Raised("s3", TRUE)) }
                          \cup { AfterTmpFile(o) : o \in extracted }

\* Lines 173-179: BeautifulSoup(response.text), the script and style
\* elements removed, get_text(separator="\n", strip=True).  The markup is
\* scanned one character at a time where it matters ("<" opens a tag, ">"
\* closes it) and one run at a time elsewhere; `mode` is "text", "tag",
\* "skip" (inside script or style) or "skiptag"; the result is the sequence
\* of text nodes outside script and style.
RestOfRun(t) ==
    IF Head(t).n > 1
    THEN << [c |-> Head(t).c, n |-> Head(t).n - 1] >> \o Tail(t)
    ELSE Tail(t)

RECURSIVE TextNodes(_, _, _, _)
TextNodes(t, mode, tag, cur) ==
    IF t = << >> THEN (IF mode = "text" THEN << cur >> ELSE << >>)
    ELSE IF Head(t).c = "<" /\ mode \in { "text", "skip" }
    THEN (IF mode = "text" THEN << cur >> ELSE << >>)
             \o TextNodes(RestOfRun(t),
                          IF mode = "text" THEN "tag" ELSE "skiptag",
                          << >>, << >>)
    ELSE IF Head(t).c = ">" /\ mode = "tag"
    THEN TextNodes(RestOfRun(t),
                   IF tag \in { SCRIPT, STYLE } THEN "skip" ELSE "text",
                   << >>, << >>)
    ELSE IF Head(t).c = ">" /\ mode = "skiptag"
    THEN TextNodes(RestOfRun(t),
                   IF tag \in { TextCat(T(<< "/" >>), SCRIPT),
                                TextCat(T(<< "/" >>), STYLE) }
                   THEN "text" ELSE "skip",
                   << >>, << >>)
    ELSE TextNodes(Tail(t), mode,
                   IF mode \in { "tag", "skiptag" }
                   THEN TextCat(tag, << Head(t) >>) ELSE tag,
                   IF mode = "text" THEN TextCat(cur, << Head(t) >>) ELSE cur)

IsSpace(ch) == ch \in { " ", "\n", "\t" }

\* str.strip() of one text node.
RECURSIVE Strip(_)
Strip(t) ==
    IF t = << >> THEN << >>
    ELSE IF IsSpace(Head(t).c) THEN Strip(Tail(t))
    ELSE IF IsSpace(t[Len(t)].c) THEN Strip(SubSeq(t, 1, Len(t) - 1))
    ELSE t

\* The stripped nodes that are not empty, joined by the separator.
RECURSIVE JoinNodes(_)
JoinNodes(nodes) ==
    IF nodes = << >> THEN << >>
    ELSE LET head == Strip(Head(nodes))
             rest == JoinNodes(Tail(nodes))
         IN  IF head = << >> THEN rest
             ELSE IF rest = << >> THEN head
             ELSE TextCat(TextCat(head, T(<< "\n" >>)), rest)

GetText(html) == JoinNodes(TextNodes(html, "text", << >>, << >>))

\* Mutant: a text of exactly the limit is cut and marked too.
WebTextCutAtLimit(text) ==
    IF TextLen(text) >= WebTextLimit
    THEN TextCat(TextTake(text, WebTextLimit), TruncatedMarker)
    ELSE text

\* _load_from_web: text longer than 10000 characters is cut and marked.
WebText(text) ==
    IF TextLen(text) > WebTextLimit
    THEN TextCat(TextTake(text, WebTextLimit), TruncatedMarker)
    ELSE text

\* Lines 165-193: the request fails, or the text of the response is
\* extracted and cut.
WebFetch(url, response_text) ==
    { Raised("web", TRUE),
      Returned("web", WebText(GetText(response_text)), TRUE) }

LoadFromWeb(url) == UNION { WebFetch(url, x) : x \in WebTexts }

\* load_information: the set of outcomes the call can have for this source
\* in this loader and filesystem state.  First matching rule wins.
S3Guard(source, useS3) == StartsWith(source, S3Prefix) /\ useS3

\* Mutant: a source that matches no rule is rejected, not taken as text.
LoadInformationNoFallback(source, useS3, client, exists) ==
    IF S3Guard(source, useS3) THEN LoadFromS3(source, useS3, client)
    ELSE IF IsValidUrl(source) THEN LoadFromWeb(source)
    ELSE IF EndsWith(source, PdfSuffix) THEN LoadFromPdf("pdf", FALSE)
    ELSE IF exists THEN LoadFromLocalFile("local", FALSE)
    ELSE { Raised("raw", FALSE) }

\* `exists` is what os.path.exists(source) answers at the time of the call.
LoadInformation(source, useS3, client, exists) ==
    IF S3Guard(source, useS3) THEN LoadFromS3(source, useS3, client)
    ELSE IF IsValidUrl(source) THEN LoadFromWeb(source)
    ELSE IF EndsWith(source, PdfSuffix) THEN LoadFromPdf("pdf", FALSE)
    ELSE IF exists THEN LoadFromLocalFile("local", FALSE)
    ELSE { Returned("raw", source, FALSE) }

\* The answers os.path.exists can give for a source: only the strings of
\* PathCandidates name something that may be on disk.
ExistsAnswers(source) ==
    IF source \in PathCandidates THEN BOOLEAN ELSE { FALSE }

(***************************************************************************)
(* ProductionRAGPipeline                                                   *)
(***************************************************************************)
Min(a, b) == IF a <= b THEN a ELSE b

\* RecursiveCharacterTextSplitter.split_text on text without separator
\* characters: windows of chunk_size characters, each starting
\* chunk_size - chunk_overlap after the previous one; no chunk for "".
SplitText(content) ==
    LET len == TextLen(content)
        stride == ChunkSize - ChunkOverlap
        count == IF len = 0 THEN 0
                 ELSE IF len <= ChunkSize THEN 1
                 ELSE 1 + ((len - ChunkSize + stride - 1) \div stride)
    IN  [k \in 1..count |->
            TextSlice(content, (k - 1) * stride,
                      Min(len, (k - 1) * stride + ChunkSize))]

\* get_source_type
GetSourceType(source) ==
    IF StartsWith(source, S3Prefix) THEN "s3"
    ELSE IF StartsWith(source, HttpPrefix) \/ StartsWith(source, HttpsPrefix)
         THEN "web"
    ELSE "local"

\* Mutant: the index counts from 0 within each source.
ChunkMetadatasPerSource(source, texts, base) ==
    [k \in 1..Len(texts) |->
        [source |-> source,
         chunk_index |-> k - 1,
         source_type |-> GetSourceType(source)]]

\* Lines 86-92: the metadata appended for the chunks of one source, the
\* first of which lands at 0-based position `base` of all_texts.
ChunkMetadatas(source, texts, base) ==
    [k \in 1..Len(texts) |->
        [source |-> source,
         chunk_index |-> base + k - 1,
         source_type |-> GetSourceType(source)]]

\* Mutant: the comparison with the preview length is off by one.
ContentPreviewOffByOne(page_content) ==
    IF TextLen(page_content) >= PreviewLen
    THEN TextCat(TextTake(page_content, PreviewLen), Ellipsis)
    ELSE page_content

\* Line 199: the preview of a retrieved chunk.
ContentPreview(page_content) ==
    IF TextLen(page_content) > PreviewLen
    THEN TextCat(TextTake(page_content, PreviewLen), Ellipsis)
    ELSE page_content

\* Lines 196-204: one entry per retrieved document, in retrieval order.
SourceInfos(retrieved) ==
    [k \in 1..Len(retrieved) |->
        [content_preview |-> ContentPreview(retrieved[k].page_content),
         source |-> retrieved[k].metadata.source,
         source_type |-> retrieved[k].metadata.source_type]]

\* vector_store.similarity_search(question, k): min(k, size) distinct
\* documents of the index, in the order the engine ranks them.
Retrievals(store) ==
    LET n == Len(store.docs)
        m == Min(TopK, n)
    IN  { [j \in 1..m |-> store.docs[f[j]]] :
            f \in { g \in [1..m -> 1..n] :
                       \A a, b \in 1..m : a # b => g[a] # g[b] } }

\* _create_qa_chain stores the chain in self.qa_chain (line 153) and has no
\* return statement: this is the value the call evaluates to.
CreateQaChainReturn == None

(***************************************************************************)
(* Bounds of the model and the requests it draws from.                     *)
(***************************************************************************)
MaxBatch == 2
MaxTokens == 2

AllBatches ==
    { << >>,
      << S3_KEY >>, << PDF_PATH >>, << LOCAL_PATH >>, << RAW300 >>,
      << WEB_URL, RAW200 >>,
      << S3_NOKEY, RAW200, RAW200 >> }

Batches == { b \in AllBatches : Len(b) <= MaxBatch }

(***************************************************************************)
(* State.                                                                  *)
(***************************************************************************)
VARIABLES
    use_s3, s3_client,        \* InformationLoader fields
    constructed,              \* InformationLoader.__init__ has returned
    probes,                   \* history: head_bucket calls made by the loader
    lcall,                    \* history: the last call made on the loader itself
    vector_store, qa_chain,   \* ProductionRAGPipeline fields
    VECTOR_STORE_SIZE,        \* observability gauge
    TOKENS_USED,              \* observability counter
    ipc,                      \* position of the /ingest worker
    request,                  \* IngestRequest being served
    i,                        \* 1-based position in sources_list
    all_texts, all_metadatas, \* locals of create_vector_store
    new_store,                \* the FAISS index FAISS.from_texts is building
    response,                 \* what /ingest answered
    qpc,                      \* position of the /query worker
    return_sources,           \* QueryRequest.return_sources
    docs,                     \* local of query
    result,                   \* what /query answered
    loaded,                   \* history: outcome of load_information per source
    storeAtCall,              \* history: vector_store when the ingest call began
    prevOk,                   \* history: the last ingest call that succeeded
    okReturned,               \* history: some create_vector_store returned normally
    afterOk,                  \* history: the rejected query began after such a return
    searched                  \* history: the index the query searched

loaderVars == << use_s3, s3_client, constructed, probes, lcall >>
pipelineVars == << vector_store, qa_chain >>
ingestVars == << ipc, request, i, all_texts, all_metadatas, new_store, response,
                 loaded, storeAtCall, prevOk, okReturned >>
queryVars == << qpc, return_sources, docs, result, afterOk, searched >>
vars == << loaderVars, pipelineVars, VECTOR_STORE_SIZE, TOKENS_USED,
           ingestVars, queryVars >>

NoRequest == [sources |-> << >>, replace_existing |-> FALSE]
NoResponse == [status |-> "none"]
NoCall == [op |-> "none"]

\* ProductionRAGPipeline.__init__, the metrics and the two workers at rest.
PipelineInit ==
    /\ vector_store = None
    /\ qa_chain = None
    /\ VECTOR_STORE_SIZE = 0
    /\ TOKENS_USED = 0
    /\ ipc = "idle"
    /\ request = NoRequest
    /\ i = 0
    /\ all_texts = << >>
    /\ all_metadatas = << >>
    /\ new_store = None
    /\ response = NoResponse
    /\ qpc = "idle"
    /\ return_sources = FALSE
    /\ docs = << >>
    /\ result = NoResponse
    /\ loaded = << >>
    /\ storeAtCall = None
    /\ prevOk = None
    /\ okReturned = FALSE
    /\ afterOk = FALSE
    /\ searched = None

Init ==
    /\ \E creds, clientOk, probeOk \in BOOLEAN :
           LET l == InitS3Client(creds, clientOk, probeOk)
           IN  /\ use_s3 = l.use_s3
               /\ s3_client = l.s3_client
               /\ probes = l.probes
    /\ constructed = TRUE
    /\ lcall = NoCall
    /\ PipelineInit

(***************************************************************************)
(* POST /ingest -> create_vector_store                                     *)
(***************************************************************************)
\* main.py 157-166: both branches of replace_existing call
\* create_vector_store(request.sources), which starts from empty lists
\* (rag_pipeline.py 61-62).
StartTexts(replace_existing, store) == << >>

IngestCall ==
    /\ ipc = "idle"
    /\ \E b \in Batches, r \in BOOLEAN :
           /\ request' = [sources |-> b, replace_existing |-> r]
           /\ all_texts' = StartTexts(r, vector_store)
    /\ all_metadatas' = << >>
    /\ i' = 1
    /\ loaded' = << >>
    /\ storeAtCall' = vector_store
    /\ ipc' = "loop"
    /\ UNCHANGED << loaderVars, pipelineVars, VECTOR_STORE_SIZE, TOKENS_USED,
                    new_store, response, prevOk, okReturned, queryVars >>

\* Mutant: the except branch leaves the loop (break, not continue).
AfterFailureAborts(pos, count) == count + 1

\* Lines 96-98: what the except branch leaves of the loop position.
AfterFailure(pos, count) == pos + 1

\* Lines 64-98: one iteration of the loop over sources_list.
ProcessSource ==
    /\ ipc = "loop"
    /\ i <= Len(request.sources)
    /\ LET source == request.sources[i]
       IN  \E exists \in ExistsAnswers(source) :
           \E o \in LoadInformation(source, use_s3, s3_client, exists) :
              /\ loaded' = Append(loaded, o @@ [exists |-> exists])
              /\ IF o.ok
                 THEN LET texts == SplitText(o.text)
                      IN  /\ all_texts' = all_texts \o texts
                          /\ all_metadatas' = all_metadatas
                                 \o ChunkMetadatas(source, texts, Len(all_texts))
                          /\ i' = i + 1
                 ELSE /\ UNCHANGED << all_texts, all_metadatas >>
                      /\ i' = AfterFailure(i, Len(request.sources))
    /\ UNCHANGED << loaderVars, pipelineVars, VECTOR_STORE_SIZE, TOKENS_USED,
                    ipc, request, new_store, response, storeAtCall, prevOk,
                    okReturned, queryVars >>

ErrorResponse(detail) == [status |-> "error", detail |-> detail]

\* Lines 100-104: the empty-batch check, then the gauge.
CheckEmpty ==
    /\ ipc = "loop"
    /\ i > Len(request.sources)
    /\ IF all_texts = << >>
       THEN /\ response' = ErrorResponse("EmptyBatchError")
            /\ ipc' = "responded"
            /\ UNCHANGED VECTOR_STORE_SIZE
       ELSE /\ VECTOR_STORE_SIZE' = Len(all_texts)
            /\ ipc' = "embed"
            /\ UNCHANGED response
    /\ UNCHANGED << loaderVars, pipelineVars, TOKENS_USED, request, i,
                    all_texts, all_metadatas, new_store, loaded, storeAtCall,
                    prevOk, okReturned, queryVars >>

\* Mutant: the old index is dropped before the new one is built.
EmbedFailDropsIndex ==
    /\ ipc = "embed"
    /\ response' = ErrorResponse("IndexBuildError")
    /\ ipc' = "responded"
    /\ vector_store' = None
    /\ UNCHANGED << loaderVars, qa_chain, VECTOR_STORE_SIZE, TOKENS_USED,
                    request, i, all_texts, all_metadatas, new_store, loaded,
                    storeAtCall, prevOk, okReturned, queryVars >>

\* Line 107, FAISS.from_texts: the embedding request fails ...
EmbedFail ==
    /\ ipc = "embed"
    /\ response' = ErrorResponse("IndexBuildError")
    /\ ipc' = "responded"
    /\ UNCHANGED << loaderVars, pipelineVars, VECTOR_STORE_SIZE, TOKENS_USED,
                    request, i, all_texts, all_metadatas, new_store, loaded,
                    storeAtCall, prevOk, okReturned, queryVars >>

\* ... or returns the vectors, and a fresh index object is created.
EmbedOk ==
    /\ ipc = "embed"
    /\ new_store' = [docs |-> << >>, ntexts |-> Len(all_texts)]
    /\ ipc' = "construct"
    /\ UNCHANGED << loaderVars, pipelineVars, VECTOR_STORE_SIZE, TOKENS_USED,
                    request, i, all_texts, all_metadatas, response, loaded,
                    storeAtCall, prevOk, okReturned, queryVars >>

Document(k) == [page_content |-> all_texts[k], metadata |-> all_metadatas[k]]

\* Mutant: the index is filled in place, in the object self.vector_store
\* already refers to.
ConstructStepInPlace ==
    /\ ipc = "construct"
    /\ Len(new_store.docs) < new_store.ntexts
    /\ new_store' = [new_store EXCEPT
                        !.docs = Append(@, Document(Len(new_store.docs) + 1))]
    /\ vector_store' = new_store'
    /\ UNCHANGED << loaderVars, qa_chain, VECTOR_STORE_SIZE, TOKENS_USED,
                    ipc, request, i, all_texts, all_metadatas, response, loaded,
                    storeAtCall, prevOk, okReturned, queryVars >>

\* FAISS.from_texts adds the documents to the index object it is building;
\* the object is not yet assigned to self.vector_store.
ConstructStep ==
    /\ ipc = "construct"
    /\ Len(new_store.docs) < new_store.ntexts
    /\ new_store' = [new_store EXCEPT
                        !.docs = Append(@, Document(Len(new_store.docs) + 1))]
    /\ UNCHANGED << loaderVars, pipelineVars, VECTOR_STORE_SIZE, TOKENS_USED,
                    ipc, request, i, all_texts, all_metadatas, response, loaded,
                    storeAtCall, prevOk, okReturned, queryVars >>

\* Mutant: the new documents are added to the index already there.
InstalledIndexAccumulates(old, new) ==
    IF old = None THEN new
    ELSE [docs |-> old.docs \o new.docs, ntexts |-> old.ntexts + new.ntexts]

\* Line 107: the assignment self.vector_store = <the index from_texts returned>.
InstalledIndex(old, new) == new

InstallIndex ==
    /\ ipc = "construct"
    /\ Len(new_store.docs) = new_store.ntexts
    /\ vector_store' = InstalledIndex(vector_store, new_store)
    /\ new_store' = None
    /\ ipc' = "qa_create"
    /\ UNCHANGED << loaderVars, qa_chain, VECTOR_STORE_SIZE, TOKENS_USED,
                    request, i, all_texts, all_metadatas, response, loaded,
                    storeAtCall, prevOk, okReturned, queryVars >>

LoadedChain == [chain_type |-> "stuff"]

\* Line 153, inside _create_qa_chain: self.qa_chain = load_qa_chain(...).
CreateQaChain ==
    /\ ipc = "qa_create"
    /\ qa_chain' = LoadedChain
    /\ ipc' = "qa_assign"
    /\ UNCHANGED << loaderVars, vector_store, VECTOR_STORE_SIZE, TOKENS_USED,
                    request, i, all_texts, all_metadatas, new_store, response,
                    loaded, storeAtCall, prevOk, okReturned, queryVars >>

\* main.py 170-175: the success response.
SuccessResponse(req, outcomes) ==
    [status |-> "success",
     sources_processed |-> Len(req.sources),
     ingested_sources |-> req.sources]

\* Line 114: self.qa_chain = self._create_qa_chain(); create_vector_store
\* returns and the endpoint answers.
AssignQaChain ==
    /\ ipc = "qa_assign"
    /\ qa_chain' = CreateQaChainReturn
    /\ okReturned' = TRUE
    /\ response' = SuccessResponse(request, loaded)
    /\ ipc' = "responded"
    /\ UNCHANGED << loaderVars, vector_store, VECTOR_STORE_SIZE, TOKENS_USED,
                    request, i, all_texts, all_metadatas, new_store, loaded,
                    storeAtCall, prevOk, queryVars >>

\* The worker is free for the next request.
IngestDone ==
    /\ ipc = "responded"
    /\ prevOk' = IF response.status = "success"
                 THEN [sources |-> request.sources, loaded |-> loaded]
                 ELSE prevOk
    /\ ipc' = "idle"
    /\ request' = NoRequest
    /\ i' = 0
    /\ all_texts' = << >>
    /\ all_metadatas' = << >>
    /\ new_store' = None
    /\ response' = NoResponse
    /\ loaded' = << >>
    /\ storeAtCall' = None
    /\ UNCHANGED << loaderVars, pipelineVars, VECTOR_STORE_SIZE, TOKENS_USED,
                    okReturned, queryVars >>

(***************************************************************************)
(* POST /query -> query                                                    *)
(***************************************************************************)
\* Mutant: the readiness check with its negations lost.
NotReadyInverted(store, chain) == store # None /\ chain # None

\* Line 174: the readiness check.
NotReady(store, chain) == store = None \/ chain = None

\* Lines 172-175: the call begins and the readiness check is made.
QueryCall ==
    /\ qpc = "idle"
    /\ \E rs \in BOOLEAN : return_sources' = rs
    /\ IF NotReady(vector_store, qa_chain)
       THEN /\ result' = [status |-> "NotReadyError"]
            /\ afterOk' = okReturned
            /\ qpc' = "responded"
       ELSE /\ result' = NoResponse
            /\ afterOk' = FALSE
            /\ qpc' = "search"
    /\ UNCHANGED << loaderVars, pipelineVars, VECTOR_STORE_SIZE, TOKENS_USED,
                    ingestVars, docs, searched >>

\* Line 179: similarity search in the index self.vector_store refers to now;
\* the embedding of the question may fail.
Search ==
    /\ qpc = "search"
    /\ \/ /\ vector_store # None
          /\ \E d \in Retrievals(vector_store) : docs' = d
          /\ searched' = vector_store
          /\ qpc' = "run"
          /\ UNCHANGED result
       \/ /\ result' = [status |-> "QueryError"]
          /\ qpc' = "responded"
          /\ UNCHANGED << docs, searched >>
    /\ UNCHANGED << loaderVars, pipelineVars, VECTOR_STORE_SIZE, TOKENS_USED,
                    ingestVars, return_sources, afterOk >>

\* Lines 188-205: the response dictionary.
QueryResponse(retrieved, tokens, rs) ==
    [status |-> "ok",
     tokens_used |-> tokens,
     has_sources |-> rs,
     sources |-> IF rs THEN SourceInfos(retrieved) ELSE << >>]

\* Mutant: the counter counts the queries, not their tokens.
TokensCountedPerQuery(total_tokens) == 1

\* Line 186: TOKENS_USED.inc(cb.total_tokens), the amount the counter grows by.
TokensCounted(total_tokens) == total_tokens

\* Lines 183-208: the completion call on self.qa_chain, the token counter,
\* the response.  A qa_chain that is None, or a failing completion call,
\* raises before the counter is touched.
Run ==
    /\ qpc = "run"
    /\ \/ /\ qa_chain # None
          /\ \E tk \in 1..MaxTokens :
                /\ TOKENS_USED + tk <= MaxTokens
                /\ TOKENS_USED' = TOKENS_USED + TokensCounted(tk)
                /\ result' = QueryResponse(docs, tk, return_sources)
          /\ UNCHANGED << docs, searched >>
       \/ /\ result' = [status |-> "QueryError"]
          /\ docs' = << >>
          /\ searched' = None
          /\ UNCHANGED TOKENS_USED
    /\ qpc' = "responded"
    /\ UNCHANGED << loaderVars, pipelineVars, VECTOR_STORE_SIZE, ingestVars,
                    return_sources, afterOk >>

\* The worker is free for the next request.
QueryDone ==
    /\ qpc = "responded"
    /\ qpc' = "idle"
    /\ return_sources' = FALSE
    /\ docs' = << >>
    /\ result' = NoResponse
    /\ afterOk' = FALSE
    /\ searched' = None
    /\ UNCHANGED << loaderVars, pipelineVars, VECTOR_STORE_SIZE, TOKENS_USED,
                    ingestVars >>

Next ==
    \/ IngestCall
    \/ ProcessSource
    \/ CheckEmpty
    \/ EmbedFail
    \/ EmbedOk
    \/ ConstructStep
    \/ InstallIndex
    \/ CreateQaChain
    \/ AssignQaChain
    \/ IngestDone
    \/ QueryCall
    \/ Search
    \/ Run
    \/ QueryDone

Spec == Init /\ [][Next]_vars

(***************************************************************************)
(* The InformationLoader on its own: constructed, then called directly.    *)
(***************************************************************************)
LoaderSources ==
    { S3_KEY, S3_NOKEY, S3_PDF, WEB_URL, BAD_URL, PDF_PATH, LOCAL_PATH, RAW200 }

LocalPaths == { LOCAL_PATH, PDF_PATH }
S3Keys == { T(<< "k" >>) }

restVars == << pipelineVars, VECTOR_STORE_SIZE, TOKENS_USED, ingestVars,
               queryVars >>

LoaderInit ==
    /\ constructed = FALSE
    /\ use_s3 = FALSE
    /\ s3_client = None
    /\ probes = 0
    /\ lcall = NoCall
    /\ PipelineInit

\* InformationLoader(use_s3), in an environment with or without the
\* credentials, where boto3.client and the probe succeed or fail.
Construct ==
    /\ ~constructed
    /\ \E use_s3_arg, creds, clientOk, probeOk \in BOOLEAN :
           LET l == NewLoader(use_s3_arg, creds, clientOk, probeOk)
           IN  /\ use_s3' = l.use_s3
               /\ s3_client' = l.s3_client
               /\ probes' = l.probes
               /\ lcall' = [op |-> "__init__", use_s3_arg |-> use_s3_arg,
                            creds |-> creds, clientOk |-> clientOk,
                            probeOk |-> probeOk, raised |-> l.raised]
    /\ constructed' = TRUE
    /\ UNCHANGED restVars

\* load_information(source)
LoadInformationCall ==
    /\ constructed
    /\ \E source \in LoaderSources :
       \E exists \in ExistsAnswers(source) :
       \E o \in LoadInformation(source, use_s3, s3_client, exists) :
           lcall' = [op |-> "load_information", source |-> source,
                     exists |-> exists, outcome |-> o]
    /\ UNCHANGED << use_s3, s3_client, constructed, probes, restVars >>

\* _load_from_web(url) on a page whose response text is one of PageTexts.
LoadFromWebCall ==
    /\ constructed
    /\ \E response_text \in PageTexts :
       \E o \in WebFetch(WEB_URL, response_text) :
           lcall' = [op |-> "_load_from_web", url |-> WEB_URL,
                     response_text |-> response_text, outcome |-> o]
    /\ UNCHANGED << use_s3, s3_client, constructed, probes, restVars >>

\* Lines 251-262 and 276-287: with the backend disabled the method returns
\* False at once; else the transfer succeeds (True), fails with a ClientError
\* (False) or fails with another exception, which leaves the method.
S3Transfer(useS3) ==
    IF ~useS3
    THEN { [raised |-> FALSE, ret |-> FALSE, contacted |-> FALSE] }
    ELSE { [raised |-> FALSE, ret |-> TRUE, contacted |-> TRUE],
           [raised |-> FALSE, ret |-> FALSE, contacted |-> TRUE],
           [raised |-> TRUE, ret |-> FALSE, contacted |-> TRUE] }

\* upload_content(file_path, s3_key)
UploadContent ==
    /\ constructed
    /\ \E file_path \in LocalPaths, s3_key \in S3Keys :
       \E o \in S3Transfer(use_s3) :
           lcall' = [op |-> "upload_content", file_path |-> file_path,
                     s3_key |-> s3_key, outcome |-> o]
    /\ UNCHANGED << use_s3, s3_client, constructed, probes, restVars >>

\* download_content(s3_key, local_path)
DownloadContent ==
    /\ constructed
    /\ \E s3_key \in S3Keys, local_path \in LocalPaths :
       \E o \in S3Transfer(use_s3) :
           lcall' = [op |-> "download_content", s3_key |-> s3_key,
                     local_path |-> local_path, outcome |-> o]
    /\ UNCHANGED << use_s3, s3_client, constructed, probes, restVars >>

LoaderNext ==
    \/ Construct
    \/ LoadInformationCall
    \/ LoadFromWebCall
    \/ UploadContent
    \/ DownloadContent

LoaderSpec == LoaderInit /\ [][LoaderNext]_vars

(***************************************************************************)
(* What the claims are stated with.                                        *)
(***************************************************************************)
\* The chunks a batch must yield, from the outcome of each source's load:
\* the chunks of the sources that loaded, in order; nothing for the others.
RECURSIVE ExpectedTexts(_)
ExpectedTexts(outcomes) ==
    IF outcomes = << >> THEN << >>
    ELSE LET last == outcomes[Len(outcomes)]
         IN  ExpectedTexts(SubSeq(outcomes, 1, Len(outcomes) - 1))
                 \o (IF last.ok THEN SplitText(last.text) ELSE << >>)

RECURSIVE ExpectedSources(_, _)
ExpectedSources(sources, outcomes) ==
    IF outcomes = << >> THEN << >>
    ELSE LET n == Len(outcomes)
             last == outcomes[n]
             count == IF last.ok THEN Len(SplitText(last.text)) ELSE 0
         IN  ExpectedSources(sources, SubSeq(outcomes, 1, n - 1))
                 \o [k \in 1..count |-> sources[n]]

ExpectedDocs(sources, outcomes) ==
    LET texts == ExpectedTexts(outcomes)
        from == ExpectedSources(sources, outcomes)
    IN  [k \in 1..Len(texts) |->
            [page_content |-> texts[k],
             metadata |-> [source |-> from[k],
                           chunk_index |-> k - 1,
                           source_type |-> GetSourceType(from[k])]]]

Succeeded == ipc = "responded" /\ response.status = "success"
Failed == ipc = "responded" /\ response.status = "error"
Complete(store) == Len(store.docs) = store.ntexts

\* C1: once a create_vector_store call has returned successfully, no later
\* query is rejected by the readiness check with the not-initialized error.
C1_ReadyAfterBuild ==
    (qpc = "responded" /\ result.status = "NotReadyError") => ~afterOk

\* C2: a create_vector_store call that fails, with an empty batch or in the
\* embedding / index construction, leaves the live index as it was when the
\* call began, and the ingestion caller gets the failure; a batch without
\* chunks always ends that way.
C2_FailureKeepsIndex ==
    /\ Failed =>
          /\ vector_store = storeAtCall
          /\ response.detail \in { "EmptyBatchError", "IndexBuildError" }
    /\ (ipc = "responded" /\ all_texts = << >>) =>
          (Failed /\ response.detail = "EmptyBatchError")

C2_Witness ==
    /\ Failed
    /\ response.detail = "IndexBuildError"
    /\ storeAtCall # None
    /\ vector_store = storeAtCall

C4_FailedSourceSkipped ==
    /\ ipc = "loop" => Len(loaded) = i - 1
    /\ ipc \in { "embed", "construct", "qa_create", "qa_assign", "responded" } =>
          Len(loaded) = Len(request.sources)
    /\ ipc \in { "loop", "embed" } => all_texts = ExpectedTexts(loaded)
    /\ Succeeded => Len(vector_store.docs) = Len(ExpectedTexts(loaded))
    /\ (Failed /\ response.detail = "EmptyBatchError") =>
          ExpectedTexts(loaded) = << >>

C4_Witness ==
    /\ Succeeded
    /\ Len(request.sources) = 2
    /\ ~loaded[1].ok
    /\ loaded[2].ok
    /\ Len(vector_store.docs) = 1

\* C5: the answer to a successful ingestion counts only the sources that
\* were loaded and does not list a failed source as ingested.
C5_ResponseReportsFailures ==
    Succeeded =>
        /\ response.sources_processed
              = Cardinality({ k \in 1..Len(loaded) : loaded[k].ok })
        /\ \A k \in 1..Len(loaded) :
              ~loaded[k].ok =>
                  \A j \in 1..Len(response.ingested_sources) :
                      response.ingested_sources[j] # request.sources[k]

\* C6: while no index has ever been installed, a query is rejected with the
\* not-initialized error before any retrieval or completion call, and the
\* token counter and the index stay as they are; an installed index never
\* goes back to none.
C6_NotReadyBeforeBuild ==
    [][ /\ (vector_store = None /\ qpc = "idle" /\ qpc' # "idle") =>
              /\ qpc' = "responded"
              /\ result'.status = "NotReadyError"
              /\ docs' = << >>
              /\ searched' = None
              /\ TOKENS_USED' = TOKENS_USED
              /\ vector_store' = vector_store
        /\ vector_store # None => vector_store' # None ]_vars

C6_Witness ==
    /\ qpc = "responded"
    /\ result.status = "NotReadyError"
    /\ vector_store = None
    /\ TOKENS_USED = 0

\* C7: with the storage backend disabled, load_information fails for every
\* source that starts with s3://.
C7_DisabledS3Fails ==
    \A k \in 1..Len(loaded) :
        (StartsWith(request.sources[k], S3Prefix) /\ ~use_s3) => ~loaded[k].ok

\* C8, as claimed: every string that is no valid URL, does not end in .pdf
\* and names no existing path is returned unchanged, without an exception
\* and without a call to an external service, whatever the backend state.
C8_RawTextIdentityClaimed ==
    \A k \in 1..Len(loaded) :
        LET s == request.sources[k]
        IN  (~IsValidUrl(s) /\ ~EndsWith(s, PdfSuffix) /\ ~loaded[k].exists) =>
                (loaded[k].ok /\ loaded[k].text = s /\ ~loaded[k].contacted)

\* C8, amended: the same for the strings that do not start with s3://.
C8_RawTextIdentity ==
    \A k \in 1..Len(loaded) :
        LET s == request.sources[k]
        IN  (~StartsWith(s, S3Prefix) /\ ~IsValidUrl(s)
               /\ ~EndsWith(s, PdfSuffix) /\ ~loaded[k].exists) =>
                (loaded[k].ok /\ loaded[k].text = s /\ ~loaded[k].contacted
                   /\ loaded[k].rule = "raw")

C8_Witness ==
    /\ use_s3
    /\ Len(loaded) = 1
    /\ request.sources = << LOCAL_PATH >>
    /\ ~loaded[1].exists
    /\ loaded[1].ok
    /\ loaded[1].text = LOCAL_PATH

\* C9: the answer of a query carries sources exactly when return_sources was
\* passed; then one entry for each retrieved chunk, in retrieval order, with
\* the chunk's source and kind, and a preview that is the chunk text when
\* that has at most 200 characters and else its first 200 characters and
\* "...", so at most 203 characters.
C9_SourcesAttribution ==
    (qpc = "responded" /\ result.status = "ok") =>
        /\ result.has_sources = return_sources
        /\ ~return_sources => result.sources = << >>
        /\ return_sources =>
              /\ Len(result.sources) = Len(docs)
              /\ \A k \in 1..Len(docs) :
                    LET text == docs[k].page_content
                        entry == result.sources[k]
                    IN  /\ entry.source = docs[k].metadata.source
                        /\ entry.source_type = docs[k].metadata.source_type
                        /\ TextLen(text) <= 200 => entry.content_preview = text
                        /\ TextLen(text) > 200 =>
                              entry.content_preview
                                  = TextCat(TextTake(text, 200), Rep(".", 3))
                        /\ TextLen(entry.content_preview) <= 203

C9_Witness ==
    /\ qpc = "responded"
    /\ result.status = "ok"
    /\ return_sources
    /\ Len(result.sources) = 2
    /\ TextLen(docs[1].page_content) = 250
    /\ TextLen(result.sources[1].content_preview) = 203
    /\ TextLen(docs[2].page_content) = 100
    /\ result.sources[2].content_preview = docs[2].page_content

\* C10: the index a query searches, and the index self.vector_store refers
\* to at any moment, is one whose construction was finished: while a call
\* is loading, embedding or constructing, the live index is still the one
\* from before the call; from the installation on it is the whole new one.
C10_QuerySeesCompleteIndex ==
    /\ vector_store # None => Complete(vector_store)
    /\ searched # None => Complete(searched)
    /\ ipc \in { "loop", "embed", "construct" } => vector_store = storeAtCall
    /\ ipc \in { "qa_create", "qa_assign" } =>
          vector_store.docs = [k \in 1..Len(all_texts) |-> Document(k)]

C10_Witness ==
    /\ qpc = "run"
    /\ ipc = "construct"
    /\ Len(new_store.docs) = 1
    /\ new_store.ntexts = 2
    /\ searched = storeAtCall
    /\ Len(docs) = 2

\* C11: the token counter grows only in the step in which a query's
\* completion call returns, and then by exactly the token count of that
\* call, which is the tokens_used of the query's answer; every other step,
\* a rejected or failing query included, leaves the counter as it is.  So
\* after any sequence of queries the counter has grown by the sum of the
\* token counts of the queries that completed.
C11_TokensCountedOnce ==
    [][ IF qpc = "run" /\ qpc' = "responded" /\ result'.status = "ok"
        THEN /\ result'.tokens_used \in 1..MaxTokens
             /\ TOKENS_USED' = TOKENS_USED + result'.tokens_used
        ELSE TOKENS_USED' = TOKENS_USED ]_vars

\* The second of two queries completed against the index of the first
\* ingestion call, which has not returned yet: one token each.
C11_Witness ==
    /\ qpc = "responded"
    /\ result.status = "ok"
    /\ result.tokens_used = 1
    /\ TOKENS_USED = 2
    /\ ~okReturned
    /\ ipc = "qa_assign"

\* C13: after an ingestion call that failed, and whenever no ingestion
\* call is running, the index-size gauge is the number of chunks of the
\* live index (0 when there is none).
C13_GaugeIsIndexSize ==
    (ipc = "idle" \/ Failed) =>
        VECTOR_STORE_SIZE
            = (IF vector_store = None THEN 0 ELSE Len(vector_store.docs))

\* C12, as claimed: when the body the fetch returned has more than 10000
\* characters, the loader's text is 10000 characters and then the
\* truncation marker; when it has at most 10000, the text does not end in
\* the marker.
C12_BodyTruncationClaimed ==
    (lcall.op = "_load_from_web" /\ lcall.outcome.ok) =>
        LET body == lcall.response_text
            text == lcall.outcome.text
        IN  /\ TextLen(body) > 10000 =>
                  /\ TextLen(text) = 10000 + TextLen(TruncatedMarker)
                  /\ TextDrop(text, 10000) = TruncatedMarker
            /\ TextLen(body) <= 10000 => ~EndsWith(text, TruncatedMarker)

\* C12, amended: the same of the text extracted from the body (markup,
\* script and style removed): longer than 10000 characters, the loader
\* returns its first 10000 characters and then the truncation marker; at
\* most 10000, it is returned as it is, without the marker.
C12_TextTruncation ==
    (lcall.op = "_load_from_web" /\ lcall.outcome.ok) =>
        LET extracted == GetText(lcall.response_text)
            text == lcall.outcome.text
        IN  /\ TextLen(extracted) > 10000 =>
                  /\ TextLen(text) = 10000 + TextLen(TruncatedMarker)
                  /\ TextTake(text, 10000) = TextTake(extracted, 10000)
                  /\ TextDrop(text, 10000) = TruncatedMarker
            /\ TextLen(extracted) <= 10000 =>
                  /\ text = extracted
                  /\ ~EndsWith(text, TruncatedMarker)

C12_Witness ==
    /\ lcall.op = "_load_from_web"
    /\ lcall.outcome.ok
    /\ lcall.response_text = Tagged(P, Rep("a", 10001))
    /\ lcall.outcome.text = TextCat(Rep("a", 10000), TruncatedMarker)

\* C14: no temporary copy that a load call created is on disk once the
\* call has returned or raised.
C14_TmpFilesDeleted ==
    lcall.op = "load_information" => ~lcall.outcome.tmp_left

\* C15: in the batch being accumulated, and in the index installed from
\* it, the chunk_index of the chunk at 0-based position p is p: the indices
\* of n chunks are 0..n-1, increasing in ingestion order, whatever source
\* each chunk came from and whichever sources failed.
C15_ChunkIndexIsPosition ==
    /\ ipc # "idle" =>
          /\ Len(all_metadatas) = Len(all_texts)
          /\ \A k \in 1..Len(all_metadatas) :
                all_metadatas[k].chunk_index = k - 1
    /\ vector_store # None =>
          /\ \A k \in 1..Len(vector_store.docs) :
                vector_store.docs[k].metadata.chunk_index = k - 1
          /\ \A j, k \in 1..Len(vector_store.docs) :
                j < k => vector_store.docs[j].metadata.chunk_index
                             < vector_store.docs[k].metadata.chunk_index

\* Two sources that both loaded: the chunk of the second has index 1.
C15_Witness ==
    /\ Succeeded
    /\ Len(request.sources) = 2
    /\ loaded[1].ok
    /\ loaded[2].ok
    /\ Len(vector_store.docs) = 2
    /\ vector_store.docs[2].metadata.source = request.sources[2]
    /\ vector_store.docs[2].metadata.chunk_index = 1

\* The kind get_source_type can give to a source that load_information
\* took by the given rule: it knows no kind for PDF files and raw text, so
\* those count as "local".
KindOfRule(rule) ==
    IF rule \in { "s3", "web" } THEN rule ELSE "local"

\* C16: the source_type stored with a chunk is the kind of the rule by
\* which load_information loaded the chunk's source.
C16_KindIsLoaderRule ==
    ipc # "idle" =>
        \A m \in 1..Len(all_metadatas) :
            \A k \in 1..Len(loaded) :
                (request.sources[k] = all_metadatas[m].source /\ loaded[k].ok) =>
                    all_metadatas[m].source_type = KindOfRule(loaded[k].rule)

\* C17: the probe is made at most once, by the constructor, which never
\* raises; without credentials, or when the probe fails, the loader comes
\* out of the constructor disabled; a disabled loader stays disabled and
\* does not probe again whatever is called on it; and on a disabled loader
\* upload_content and download_content return False, without raising and
\* without contacting the storage service.
C17_DisabledForGood ==
    /\ [](probes <= 1)
    /\ []((~use_s3 /\ lcall.op \in { "upload_content", "download_content" }) =>
             lcall.outcome
                 = [raised |-> FALSE, ret |-> FALSE, contacted |-> FALSE])
    /\ [][ /\ constructed =>
                (constructed' /\ probes' = probes /\ (~use_s3 => ~use_s3'))
           /\ (~constructed /\ constructed') =>
                /\ lcall'.op = "__init__"
                /\ ~lcall'.raised
                /\ (~lcall'.use_s3_arg \/ ~lcall'.creds) =>
                       (~use_s3' /\ probes' = 0)
                /\ (probes' = 1 /\ ~lcall'.probeOk) => ~use_s3' ]_vars

C17_Witness ==
    /\ constructed
    /\ ~use_s3
    /\ probes = 1
    /\ lcall.op = "upload_content"
    /\ lcall.outcome.ret = FALSE
====
